---- MODULE Spec2Model ----
(***************************************************************************)
(* PriceStreamer of src/streamlit_app_Version2.py: the subscription set,   *)
(* the price cache, the shared stop event, the background units started by *)
(* _run_ws and the caller threads that run subscribe / unsubscribe / stop. *)
(* Every statement that reads or writes shared state outside the lock is a *)
(* separate step; a "with self._lock" block is one step.                   *)
(***************************************************************************)
EXTENDS Integers, Sequences, FiniteSets, TLC

\* ---------------------------------------------------------------- bounds
\* number of create_user / authenticate calls made in one behaviour of the
\* desktop variant
MaxDesktopCalls == 3
\* number of caller threads that use the one cached streamer
NumCallers == 2
\* number of background threads that can exist at the same time
MaxUnits == 3
\* number of subscribe / unsubscribe / stop calls made in one behaviour
MaxCalls == 3
\* number of calls made in one behaviour of the specifications that look at
\* one race (concurrent callers, arbitrary messages, fair scheduling)
MaxCallsShort == 2

Callers == 1..NumCallers
Units == 1..MaxUnits
\* WebSocketApp objects that are referenced at the same time: at most one per
\* unit inside run_forever, or the one a unit has just created
Apps == 1..MaxUnits
\* Python None for the references _thread and _ws_app
None == 0

\* ------------------------------------------------------- strings, symbols
\* a Python str is a sequence of one-character strings; "" and None are <<>>
\* (the code only ever tests them for truth).
InputSymbols == { <<"B","T">>, <<"b","t">>, <<"E","T">>, <<"e","T">> }

UpperChar(ch) ==
  CASE ch = "b" -> "B" [] ch = "e" -> "E" [] ch = "t" -> "T" [] OTHER -> ch
LowerChar(ch) ==
  CASE ch = "B" -> "b" [] ch = "E" -> "e" [] ch = "T" -> "t" [] OTHER -> ch
\* str.upper() / str.lower()
Upper(s) == [i \in DOMAIN s |-> UpperChar(s[i])]
Lower(s) == [i \in DOMAIN s |-> LowerChar(s[i])]

\* code point of a character, for the ordering used by sorted()
Ord(ch) ==
  CASE ch = "B" -> 66 [] ch = "E" -> 69 [] ch = "T" -> 84
    [] ch = "b" -> 98 [] ch = "e" -> 101 [] ch = "t" -> 116 [] OTHER -> 0

RECURSIVE StrLess(_, _)
StrLess(a, b) ==
  IF a = <<>> THEN b # <<>>
  ELSE IF b = <<>> THEN FALSE
  ELSE IF Ord(Head(a)) # Ord(Head(b)) THEN Ord(Head(a)) < Ord(Head(b))
  ELSE StrLess(Tail(a), Tail(b))

\* sorted(set of str)
RECURSIVE Sorted(_)
Sorted(S) ==
  IF S = {} THEN <<>>
  ELSE LET m == CHOOSE x \in S : \A y \in S \ {x} : StrLess(x, y)
       IN <<m>> \o Sorted(S \ {m})

\* "/".join(parts)
RECURSIVE Join(_)
Join(parts) ==
  IF parts = <<>> THEN <<>>
  ELSE IF Len(parts) = 1 THEN Head(parts)
  ELSE Head(parts) \o <<"/">> \o Join(Tail(parts))

BINANCE_WS_BASE == <<"wss://stream.binance.com:9443/stream?streams=">>

\* mutant of StreamsOf: the streams are joined in descending order
StreamsOf_descending(S) ==
  Join([i \in 1..Cardinality(S) |->
          Lower(Sorted(S)[Cardinality(S) + 1 - i]) \o <<"@trade">>])

\* the two statements of _build_url: the emptiness test and the URL proper
StreamsOf(S) == Join([i \in 1..Cardinality(S) |-> Lower(Sorted(S)[i]) \o <<"@trade">>])
UrlOf(S) == BINANCE_WS_BASE \o StreamsOf(S)
_build_url(S) == IF S = {} THEN <<>> ELSE UrlOf(S)

\* ------------------------------------------------------------- Decimal()
DigitChars == {"0","1","2","3","4","5","6","7","8","9"}
DigitVal(ch) ==
  CASE ch = "0" -> 0 [] ch = "1" -> 1 [] ch = "2" -> 2 [] ch = "3" -> 3
    [] ch = "4" -> 4 [] ch = "5" -> 5 [] ch = "6" -> 6 [] ch = "7" -> 7
    [] ch = "8" -> 8 [] ch = "9" -> 9 [] OTHER -> 0

DotsIn(s) == Cardinality({i \in DOMAIN s : s[i] = "."})
DigitsIn(s) == Cardinality({i \in DOMAIN s : s[i] \in DigitChars})
\* Decimal(s) raises InvalidOperation unless s is digits with at most one point
DecimalValid(s) ==
  /\ \A i \in DOMAIN s : s[i] \in DigitChars \cup {"."}
  /\ DotsIn(s) <= 1
  /\ DigitsIn(s) >= 1

RECURSIVE Coefficient(_, _)
Coefficient(s, acc) ==
  IF s = <<>> THEN acc
  ELSE IF Head(s) = "." THEN Coefficient(Tail(s), acc)
  ELSE Coefficient(Tail(s), 10 * acc + DigitVal(Head(s)))

DotPos(s) == CHOOSE i \in DOMAIN s : s[i] = "."
\* the exact value coef * 10^exp; no rounding to the context precision
Decimal(s) ==
  [coef |-> Coefficient(s, 0),
   exp  |-> IF DotsIn(s) = 0 THEN 0 ELSE 0 - (Len(s) - DotPos(s))]

\* ------------------------------------------------------ inbound messages
\* json text that does not parse, json that is not an object, or an object
\* (optionally wrapped in {"data": ...}) with the fields s, p and c.
Fields == [s : {<<"B","T">>, <<"b","t">>, <<"E","T">>, <<>>},
           p : {<<"1",".","5","0">>, <<"x">>, <<>>},
           c : {<<"2">>, <<>>}]
Messages ==
  { [kind |-> k, wrapped |-> FALSE, body |-> [s |-> <<>>, p |-> <<>>, c |-> <<>>]] :
      k \in {"unparseable", "notobject"} }
  \cup [kind : {"object"}, wrapped : BOOLEAN, body : Fields]

\* ------------------------------------------------------------------ state
VARIABLES
  HAS_WS,       \* module constant set by the import of websocket-client
  symbols,      \* self._symbols
  prices,       \* self._prices: symbol -> Decimal (the receipt time is not modelled)
  ws_app,       \* self._ws_app: a WebSocketApp object or None
  thread,       \* self._thread: a unit or None
  stop_event,   \* self._stop_event
  aurl,         \* the url each WebSocketApp object was constructed with
  upc,          \* position of each background unit in _run
  uurl,         \* the url each background unit was started with
  uapp,         \* the WebSocketApp whose run_forever the unit is in, or None
  cpc,          \* position of each caller thread
  op,           \* the call a caller is in
  arg,          \* its symbol argument, after .upper()
  url,          \* local url of _restart_connection
  t,            \* local t of _run_ws / the thread _stop_ws joins
  ret,          \* the value the call returns: True, False or None, the
                \* result of get_price, or the result of list_symbols
  calls,        \* number of calls made so far
  signalled,    \* history: the units a _stop_ws has raised the stop signal for
  subscribed,   \* history: the symbols that were ever added to _symbols
  retrying,     \* history: the units that are between a backoff sleep and their
                \* next connection
  pre,          \* history: _symbols and _prices before a subscribe(S) that is
                \* being followed by unsubscribe(S), or <<>>
  stopped,      \* history: "never" while stop() was not called, "last" when the
                \* latest call is a stop(), "twice" when the latest two are,
                \* "earlier" when stop() was called and another call followed
  dropped,      \* history: _on_message has returned without writing the cache
  users,        \* desktop variant: the rows of the users table
  dlog          \* desktop variant, history: the create_user and authenticate
                \* calls made so far, with what they returned

vars == <<HAS_WS, symbols, prices, ws_app, thread, stop_event, aurl,
          upc, uurl, uapp, cpc, op, arg, url, t, ret, calls,
          signalled, subscribed, retrying, pre, stopped, dropped, users, dlog>>

\* a call that returns True, False or None ("none": no value yet)
Returns(v) == [val |-> v, price |-> <<>>, list |-> <<>>]

streamer == <<symbols, prices, ws_app, thread, stop_event, aurl>>
units == <<upc, uurl, uapp>>
frames == <<cpc, op, arg, url, t, ret>>
history == <<calls, signalled, subscribed, retrying, pre, stopped, dropped>>
desktop == <<users, dlog>>

Init ==
  /\ HAS_WS \in BOOLEAN
  /\ symbols = {}
  /\ prices = <<>>
  /\ ws_app = None
  /\ thread = None
  /\ stop_event = FALSE
  /\ aurl = [a \in Apps |-> <<>>]
  /\ upc = [u \in Units |-> "none"]
  /\ uurl = [u \in Units |-> <<>>]
  /\ uapp = [u \in Units |-> None]
  /\ cpc = [c \in Callers |-> "idle"]
  /\ op = [c \in Callers |-> "none"]
  /\ arg = [c \in Callers |-> <<>>]
  /\ url = [c \in Callers |-> <<>>]
  /\ t = [c \in Callers |-> None]
  /\ ret = [c \in Callers |-> Returns("none")]
  /\ calls = 0
  /\ signalled = {}
  /\ subscribed = {}
  /\ retrying = {}
  /\ pre = <<>>
  /\ stopped = "never"
  /\ dropped = FALSE
  /\ users = {}
  /\ dlog = <<>>

\* a unit whose thread is running
Alive(u) == upc[u] # "none"
\* a unit inside run_forever with the socket open
Connected(u) == upc[u] = "connected"
\* the url of the connection a unit holds
ConnUrl(u) == aurl[uapp[u]]
\* a unit that stays where it is for longer than the join timeout: inside
\* run_forever on an app nobody closed, or in time.sleep(2)
Blocked(u) == upc[u] \in {"connected", "sleep"}

\* WebSocketApp objects nobody references any more are forgotten
Collect(w, ua) ==
  [a \in Apps |-> IF a = w \/ (\E u \in Units : ua[u] = a) THEN aurl[a] ELSE <<>>]

\* ------------------------------------------------------- background unit
\* while not self._stop_event.is_set():
UnitCheck(u) ==
  /\ upc[u] = "check"
  /\ IF stop_event
       THEN /\ upc' = [upc EXCEPT ![u] = "none"]
            /\ uurl' = [uurl EXCEPT ![u] = <<>>]
            /\ signalled' = signalled \ {u}
            /\ retrying' = retrying \ {u}
       ELSE /\ upc' = [upc EXCEPT ![u] = "create"]
            /\ uurl' = uurl
            /\ UNCHANGED <<signalled, retrying>>
  /\ UNCHANGED <<HAS_WS, desktop, streamer, uapp, frames, calls, subscribed, pre, stopped, dropped>>

\* self._ws_app = WebSocketApp(url, ...)
UnitCreate(u) ==
  /\ upc[u] = "create"
  /\ LET a == CHOOSE x \in Apps :
                /\ \A v \in Units : uapp[v] # x
                /\ \A y \in Apps : (\A v \in Units : uapp[v] # y) => x <= y
     IN /\ ws_app' = a
        /\ aurl' = [b \in Apps |-> IF b = a THEN uurl[u] ELSE Collect(a, uapp)[b]]
  /\ upc' = [upc EXCEPT ![u] = "run"]
  /\ UNCHANGED <<HAS_WS, desktop, symbols, prices, thread, stop_event, uurl, uapp, frames, history>>

\* self._ws_app.run_forever(...) on whatever self._ws_app refers to now:
\* None raises AttributeError, an app whose socket is open raises
\* WebSocketException, both caught by the except of _run; otherwise the
\* connection to the url of that app is opened
UnitRun(u) ==
  /\ upc[u] = "run"
  /\ IF ws_app = None \/ (\E v \in Units : uapp[v] = ws_app /\ Connected(v))
       THEN /\ upc' = [upc EXCEPT ![u] = "after"]
            /\ uapp' = uapp
            /\ retrying' = retrying
       ELSE /\ upc' = [upc EXCEPT ![u] = "connected"]
            /\ uapp' = [uapp EXCEPT ![u] = ws_app]
            /\ retrying' = retrying \ {u}
  /\ UNCHANGED <<HAS_WS, desktop, streamer, uurl, frames, calls, signalled, subscribed, pre, stopped, dropped>>

\* _on_message up to the cache write: data = obj.get("data") or obj
MessageData(m) ==
  LET empty == [s |-> <<>>, p |-> <<>>, c |-> <<>>]
  IN IF m.wrapped /\ m.body # empty THEN m.body
     ELSE IF m.wrapped THEN empty ELSE m.body
\* sym = (data.get("s") or "").upper()
MessageSym(m) == Upper(MessageData(m).s)
\* price_s = data.get("p") or data.get("c")
MessagePrice(m) ==
  IF MessageData(m).p # <<>> THEN MessageData(m).p ELSE MessageData(m).c
\* the message reaches the cache write: json.loads and obj.get do not raise,
\* sym and price_s are not empty, Decimal(price_s) does not raise
Stores(m) ==
  /\ m.kind = "object"
  /\ MessageSym(m) # <<>> /\ MessagePrice(m) # <<>>
  /\ DecimalValid(MessagePrice(m))

\* mutant of OnMessageResult: the last-close field is preferred to the
\* last-trade field
OnMessageResult_prefers_close(m) ==
  LET price_s == IF MessageData(m).c # <<>> THEN MessageData(m).c
                 ELSE MessageData(m).p
  IN IF m.kind # "object" \/ MessageSym(m) = <<>> \/ price_s = <<>>
          \/ ~DecimalValid(price_s)
       THEN prices
       ELSE [x \in DOMAIN prices \cup {MessageSym(m)} |->
               IF x = MessageSym(m) THEN Decimal(price_s) ELSE prices[x]]

\* mutant of OnMessageResult: an existing cache entry is kept
OnMessageResult_first_write_wins(m) ==
  IF ~Stores(m) \/ MessageSym(m) \in DOMAIN prices THEN prices
  ELSE [x \in DOMAIN prices \cup {MessageSym(m)} |->
          IF x = MessageSym(m) THEN Decimal(MessagePrice(m)) ELSE prices[x]]

\* the body of _on_message for message m, as the new value of _prices
OnMessageResult(m) ==
  IF ~Stores(m) THEN prices
  ELSE [x \in DOMAIN prices \cup {MessageSym(m)} |->
          IF x = MessageSym(m) THEN Decimal(MessagePrice(m)) ELSE prices[x]]

\* history: the pair subscribe(S), unsubscribe(S) stays under observation while
\* the only cache writes are ticks for S that arrive before unsubscribe(S) is called
PreAfterMessage(m) ==
  IF pre = <<>> \/ OnMessageResult(m) = prices THEN pre
  ELSE IF pre[1].stage = "subscribed" /\ Upper(m.body.s) = pre[1].sym
         THEN <<[pre[1] EXCEPT !.ticks = TRUE]>>
  ELSE <<>>

\* a message arrives on the connection of unit u (also one that was already
\* read from the socket when the socket was closed)
_on_message(u, m) ==
  /\ upc[u] \in {"connected", "closing"}
  /\ prices' = OnMessageResult(m)
  /\ pre' = PreAfterMessage(m)
  /\ dropped' = (dropped \/ ~Stores(m))
  /\ UNCHANGED <<HAS_WS, desktop, symbols, ws_app, thread, stop_event, aurl, units, frames,
                 calls, signalled, subscribed, retrying, stopped>>

\* run_forever returns or raises: network error, server close, ping timeout
ConnectionLost(u) ==
  /\ upc[u] = "connected"
  /\ upc' = [upc EXCEPT ![u] = "after"]
  /\ uapp' = [uapp EXCEPT ![u] = None]
  /\ aurl' = Collect(ws_app, uapp')
  /\ UNCHANGED <<HAS_WS, desktop, symbols, prices, ws_app, thread, stop_event, uurl, frames, history>>

\* run_forever returns because the app was closed by _stop_ws
ConnectionClosed(u) ==
  /\ upc[u] = "closing"
  /\ upc' = [upc EXCEPT ![u] = "after"]
  /\ uapp' = [uapp EXCEPT ![u] = None]
  /\ aurl' = Collect(ws_app, uapp')
  /\ UNCHANGED <<HAS_WS, desktop, symbols, prices, ws_app, thread, stop_event, uurl, frames, history>>

\* if not self._stop_event.is_set(): time.sleep(2)
UnitAfter(u) ==
  /\ upc[u] = "after"
  /\ upc' = [upc EXCEPT ![u] = IF stop_event THEN "check" ELSE "sleep"]
  /\ retrying' = IF stop_event THEN retrying ELSE retrying \cup {u}
  /\ UNCHANGED <<HAS_WS, desktop, streamer, uurl, uapp, frames, calls, signalled, subscribed, pre, stopped, dropped>>

\* time.sleep(2) returns
UnitWake(u) ==
  /\ upc[u] = "sleep"
  /\ upc' = [upc EXCEPT ![u] = "check"]
  /\ UNCHANGED <<HAS_WS, desktop, streamer, uurl, uapp, frames, history>>

\* ---------------------------------------------------------------- callers
Goto(c, label) == cpc' = [cpc EXCEPT ![c] = label]

\* mutant of subscribe: the early return for a symbol already in the set is missing
subscribe_without_early_return(c, symbol) ==
  /\ cpc[c] = "idle"
  /\ calls < MaxCalls
  /\ calls' = calls + 1
  /\ op' = [op EXCEPT ![c] = "subscribe"]
  /\ IF ~HAS_WS
       THEN /\ arg' = [arg EXCEPT ![c] = symbol]
            /\ ret' = [ret EXCEPT ![c] = Returns("False")]
            /\ Goto(c, "return")
            /\ symbols' = symbols
       ELSE /\ arg' = [arg EXCEPT ![c] = Upper(symbol)]
            /\ ret' = [ret EXCEPT ![c] = Returns("True")]
            /\ IF Upper(symbol) \in symbols
                 THEN /\ Goto(c, "stop_set")
                      /\ symbols' = symbols
                 ELSE /\ Goto(c, "stop_set")
                      /\ symbols' = symbols \cup {Upper(symbol)}
  /\ subscribed' = IF HAS_WS THEN subscribed \cup {Upper(symbol)} ELSE subscribed
  /\ pre' = IF HAS_WS /\ Upper(symbol) \notin symbols /\ Upper(symbol) \notin DOMAIN prices
             THEN <<[sym |-> Upper(symbol), symbols |-> symbols, prices |-> prices,
                     stage |-> "subscribed", ticks |-> FALSE]>>
             ELSE <<>>
  /\ stopped' = IF stopped = "never" THEN "never" ELSE "earlier"
  /\ UNCHANGED <<HAS_WS, desktop, prices, ws_app, thread, stop_event, aurl, units, url, t, signalled, retrying, dropped>>

\* mutant of subscribe: the test of HAS_WS is missing
subscribe_without_has_ws_test(c, symbol) ==
  /\ cpc[c] = "idle"
  /\ calls < MaxCalls
  /\ calls' = calls + 1
  /\ op' = [op EXCEPT ![c] = "subscribe"]
  /\ arg' = [arg EXCEPT ![c] = Upper(symbol)]
  /\ ret' = [ret EXCEPT ![c] = Returns("True")]
  /\ IF Upper(symbol) \in symbols
       THEN /\ Goto(c, "return")
            /\ symbols' = symbols
       ELSE /\ Goto(c, "stop_set")
            /\ symbols' = symbols \cup {Upper(symbol)}
  /\ subscribed' = subscribed \cup {Upper(symbol)}
  /\ pre' = <<>>
  /\ stopped' = IF stopped = "never" THEN "never" ELSE "earlier"
  /\ UNCHANGED <<HAS_WS, desktop, prices, ws_app, thread, stop_event, aurl, units, url, t, signalled, retrying, dropped>>

\* subscribe(symbol), up to the end of the "with self._lock" block
subscribe(c, symbol) ==
  /\ cpc[c] = "idle"
  /\ calls < MaxCalls
  /\ calls' = calls + 1
  /\ op' = [op EXCEPT ![c] = "subscribe"]
  /\ IF ~HAS_WS
       THEN /\ arg' = [arg EXCEPT ![c] = symbol]
            /\ ret' = [ret EXCEPT ![c] = Returns("False")]
            /\ Goto(c, "return")
            /\ symbols' = symbols
       ELSE /\ arg' = [arg EXCEPT ![c] = Upper(symbol)]
            /\ ret' = [ret EXCEPT ![c] = Returns("True")]
            /\ IF Upper(symbol) \in symbols
                 THEN /\ Goto(c, "return")
                      /\ symbols' = symbols
                 ELSE /\ Goto(c, "stop_set")
                      /\ symbols' = symbols \cup {Upper(symbol)}
  /\ subscribed' = IF HAS_WS THEN subscribed \cup {Upper(symbol)} ELSE subscribed
  /\ pre' = IF HAS_WS /\ Upper(symbol) \notin symbols /\ Upper(symbol) \notin DOMAIN prices
             THEN <<[sym |-> Upper(symbol), symbols |-> symbols, prices |-> prices,
                     stage |-> "subscribed", ticks |-> FALSE]>>
             ELSE <<>>
  /\ stopped' = IF stopped = "never" THEN "never" ELSE "earlier"
  /\ UNCHANGED <<HAS_WS, desktop, prices, ws_app, thread, stop_event, aurl, units, url, t, signalled, retrying, dropped>>

\* mutant of unsubscribe: the symbol is removed but its cache entry is kept
unsubscribe_without_pop(c, symbol) ==
  /\ cpc[c] = "idle"
  /\ calls < MaxCalls
  /\ calls' = calls + 1
  /\ op' = [op EXCEPT ![c] = "unsubscribe"]
  /\ IF ~HAS_WS
       THEN /\ arg' = [arg EXCEPT ![c] = symbol]
            /\ ret' = [ret EXCEPT ![c] = Returns("False")]
            /\ Goto(c, "return")
            /\ UNCHANGED <<symbols, prices>>
       ELSE /\ arg' = [arg EXCEPT ![c] = Upper(symbol)]
            /\ ret' = [ret EXCEPT ![c] = Returns("True")]
            /\ Goto(c, "stop_set")
            /\ IF Upper(symbol) \in symbols
                 THEN /\ symbols' = symbols \ {Upper(symbol)}
                      /\ prices' = prices
                 ELSE UNCHANGED <<symbols, prices>>
  /\ pre' = IF pre # <<>> /\ HAS_WS /\ pre[1].stage = "subscribed" /\ pre[1].sym = Upper(symbol)
             THEN <<[pre[1] EXCEPT !.stage = "unsubscribed"]>>
             ELSE <<>>
  /\ stopped' = IF stopped = "never" THEN "never" ELSE "earlier"
  /\ UNCHANGED <<HAS_WS, desktop, ws_app, thread, stop_event, aurl, units, url, t, signalled, subscribed, retrying, dropped>>

\* unsubscribe(symbol), up to the end of the "with self._lock" block
unsubscribe(c, symbol) ==
  /\ cpc[c] = "idle"
  /\ calls < MaxCalls
  /\ calls' = calls + 1
  /\ op' = [op EXCEPT ![c] = "unsubscribe"]
  /\ IF ~HAS_WS
       THEN /\ arg' = [arg EXCEPT ![c] = symbol]
            /\ ret' = [ret EXCEPT ![c] = Returns("False")]
            /\ Goto(c, "return")
            /\ UNCHANGED <<symbols, prices>>
       ELSE /\ arg' = [arg EXCEPT ![c] = Upper(symbol)]
            /\ ret' = [ret EXCEPT ![c] = Returns("True")]
            /\ Goto(c, "stop_set")
            /\ IF Upper(symbol) \in symbols
                 THEN /\ symbols' = symbols \ {Upper(symbol)}
                      /\ prices' = [x \in DOMAIN prices \ {Upper(symbol)} |-> prices[x]]
                 ELSE UNCHANGED <<symbols, prices>>
  /\ pre' = IF pre # <<>> /\ HAS_WS /\ pre[1].stage = "subscribed" /\ pre[1].sym = Upper(symbol)
             THEN <<[pre[1] EXCEPT !.stage = "unsubscribed"]>>
             ELSE <<>>
  /\ stopped' = IF stopped = "never" THEN "never" ELSE "earlier"
  /\ UNCHANGED <<HAS_WS, desktop, ws_app, thread, stop_event, aurl, units, url, t, signalled, subscribed, retrying, dropped>>

\* mutant of stop: the call also forgets the subscriptions and their prices
stop_forgetting_subscriptions(c) ==
  /\ cpc[c] = "idle"
  /\ calls < MaxCalls
  /\ calls' = calls + 1
  /\ op' = [op EXCEPT ![c] = "stop"]
  /\ ret' = [ret EXCEPT ![c] = Returns("None")]
  /\ Goto(c, "stop_set")
  /\ symbols' = {}
  /\ prices' = <<>>
  /\ pre' = <<>>
  /\ stopped' = IF stopped \in {"last", "twice"} THEN "twice" ELSE "last"
  /\ UNCHANGED <<HAS_WS, desktop, ws_app, thread, stop_event, aurl, units, arg, url, t,
                 signalled, subscribed, retrying, dropped>>

\* stop()
stop(c) ==
  /\ cpc[c] = "idle"
  /\ calls < MaxCalls
  /\ calls' = calls + 1
  /\ op' = [op EXCEPT ![c] = "stop"]
  /\ ret' = [ret EXCEPT ![c] = Returns("None")]
  /\ Goto(c, "stop_set")
  /\ pre' = <<>>
  /\ stopped' = IF stopped \in {"last", "twice"} THEN "twice" ELSE "last"
  /\ UNCHANGED <<HAS_WS, desktop, streamer, units, arg, url, t, signalled, subscribed, retrying, dropped>>

\* _stop_ws: self._stop_event.set()
StopSet(c) ==
  /\ cpc[c] = "stop_set"
  /\ stop_event' = TRUE
  /\ signalled' = signalled \cup {u \in Units : u = thread /\ Alive(u)}
  /\ Goto(c, "stop_close")
  /\ UNCHANGED <<HAS_WS, desktop, symbols, prices, ws_app, thread, aurl, units, op, arg, url, t, ret,
                 calls, subscribed, retrying, pre, stopped, dropped>>

\* _stop_ws: if self._ws_app: self._ws_app.close()
\* close() shuts the socket of an app that is inside run_forever; on an app
\* whose run_forever has not started or has ended it changes nothing
StopClose(c) ==
  /\ cpc[c] = "stop_close"
  /\ upc' = [u \in Units |->
               IF ws_app # None /\ uapp[u] = ws_app /\ Connected(u)
                 THEN "closing" ELSE upc[u]]
  /\ Goto(c, "stop_thread")
  /\ UNCHANGED <<HAS_WS, desktop, streamer, uurl, uapp, op, arg, url, t, ret, history>>

\* _stop_ws: if self._thread: (evaluate self._thread for the join)
StopThread(c) ==
  /\ cpc[c] = "stop_thread"
  /\ t' = [t EXCEPT ![c] = thread]
  /\ Goto(c, IF thread = None THEN "stop_clear_app" ELSE "stop_join")
  /\ UNCHANGED <<HAS_WS, desktop, streamer, units, op, arg, url, ret, history>>

\* mutant of StopJoin: join() without a timeout returns only when the thread
\* has exited
StopJoin_without_timeout(c) ==
  /\ cpc[c] = "stop_join"
  /\ ~Alive(t[c])
  /\ t' = [t EXCEPT ![c] = None]
  /\ Goto(c, "stop_clear_app")
  /\ UNCHANGED <<HAS_WS, desktop, streamer, units, op, arg, url, ret, history>>

\* _stop_ws: self._thread.join(timeout=1) returns: the thread has exited, or
\* the second has passed with the thread still blocked
StopJoin(c) ==
  /\ cpc[c] = "stop_join"
  /\ ~Alive(t[c]) \/ Blocked(t[c])
  /\ t' = [t EXCEPT ![c] = None]
  /\ Goto(c, "stop_clear_app")
  /\ UNCHANGED <<HAS_WS, desktop, streamer, units, op, arg, url, ret, history>>

\* _stop_ws: self._ws_app = None
StopClearApp(c) ==
  /\ cpc[c] = "stop_clear_app"
  /\ ws_app' = None
  /\ aurl' = Collect(None, uapp)
  /\ Goto(c, "stop_clear_thread")
  /\ UNCHANGED <<HAS_WS, desktop, symbols, prices, thread, stop_event, units, op, arg, url, t, ret, history>>

\* _stop_ws: self._thread = None; stop() returns, _restart_connection goes on
StopClearThread(c) ==
  /\ cpc[c] = "stop_clear_thread"
  /\ thread' = None
  /\ Goto(c, IF op[c] = "stop" THEN "return" ELSE "build_test")
  /\ UNCHANGED <<HAS_WS, desktop, symbols, prices, ws_app, stop_event, aurl, units, op, arg, url, t, ret, history>>

\* _build_url: if not self._symbols: return None; then "if url:" is false
BuildTest(c) ==
  /\ cpc[c] = "build_test"
  /\ url' = [url EXCEPT ![c] = <<>>]
  /\ Goto(c, IF symbols = {} THEN "return" ELSE "build_sorted")
  /\ UNCHANGED <<HAS_WS, desktop, streamer, units, op, arg, t, ret, history>>

\* _build_url: sorted(self._symbols) and the join; then "if url:" is true
\* and _run_ws tests HAS_WS
BuildSorted(c) ==
  /\ cpc[c] = "build_sorted"
  /\ url' = [url EXCEPT ![c] = UrlOf(symbols)]
  /\ Goto(c, IF HAS_WS THEN "run_clear" ELSE "return")
  /\ UNCHANGED <<HAS_WS, desktop, streamer, units, op, arg, t, ret, history>>

\* _run_ws: self._stop_event.clear()
RunClear(c) ==
  /\ cpc[c] = "run_clear"
  /\ stop_event' = FALSE
  /\ Goto(c, "run_start")
  /\ UNCHANGED <<HAS_WS, desktop, symbols, prices, ws_app, thread, aurl, units, op, arg, url, t, ret, history>>

\* a thread object that has exited (or never ran) and that nothing refers to
Free(u) == ~Alive(u) /\ thread # u /\ \A c \in Callers : t[c] # u

\* _run_ws: t = threading.Thread(target=_run); t.start()
RunStart(c) ==
  /\ cpc[c] = "run_start"
  /\ \E u \in Units : Free(u)
  /\ LET u == CHOOSE x \in Units : Free(x) /\ \A y \in Units : Free(y) => x <= y
     IN /\ upc' = [upc EXCEPT ![u] = "check"]
        /\ uurl' = [uurl EXCEPT ![u] = url[c]]
        /\ t' = [t EXCEPT ![c] = u]
  /\ Goto(c, "run_assign")
  /\ UNCHANGED <<HAS_WS, desktop, streamer, uapp, op, arg, url, ret, history>>

\* _run_ws: self._thread = t
RunAssign(c) ==
  /\ cpc[c] = "run_assign"
  /\ thread' = t[c]
  /\ t' = [t EXCEPT ![c] = None]
  /\ Goto(c, "return")
  /\ UNCHANGED <<HAS_WS, desktop, symbols, prices, ws_app, stop_event, aurl, units, op, arg, url, ret, history>>

\* the call returns to its caller
Return(c) ==
  /\ cpc[c] = "return"
  /\ Goto(c, "idle")
  /\ op' = [op EXCEPT ![c] = "none"]
  /\ arg' = [arg EXCEPT ![c] = <<>>]
  /\ url' = [url EXCEPT ![c] = <<>>]
  /\ ret' = [ret EXCEPT ![c] = Returns("none")]
  /\ pre' = IF pre # <<>> /\ pre[1].stage = "unsubscribed" THEN <<>> ELSE pre
  /\ UNCHANGED <<HAS_WS, desktop, streamer, units, t, calls, signalled, subscribed, retrying, stopped, dropped>>

\* mutant of get_price: the argument is looked up as it was spelled
get_price_without_upper(symbol) ==
  IF symbol \in DOMAIN prices THEN <<prices[symbol]>> ELSE <<>>

\* get_price(symbol) and list_symbols(), each one "with self._lock" block
get_price(symbol) ==
  IF Upper(symbol) \in DOMAIN prices THEN <<prices[Upper(symbol)]>> ELSE <<>>
list_symbols == Sorted(symbols)

\* mutant of GetPrice: the lock is held by a caller for the whole of its
\* _restart_connection, so the read waits for it
GetPrice_under_restart_lock(c, symbol) ==
  /\ cpc[c] = "idle"
  /\ \A d \in Callers : cpc[d] \in {"idle", "return"}
  /\ op' = [op EXCEPT ![c] = "get_price"]
  /\ arg' = [arg EXCEPT ![c] = Upper(symbol)]
  /\ ret' = [ret EXCEPT ![c] = [val |-> "price", price |-> get_price(symbol), list |-> <<>>]]
  /\ Goto(c, "return")
  /\ UNCHANGED <<HAS_WS, desktop, streamer, units, url, t, history>>

\* a call of get_price(symbol): symbol.upper(), the locked read, the return
GetPrice(c, symbol) ==
  /\ cpc[c] = "idle"
  /\ op' = [op EXCEPT ![c] = "get_price"]
  /\ arg' = [arg EXCEPT ![c] = Upper(symbol)]
  /\ ret' = [ret EXCEPT ![c] = [val |-> "price", price |-> get_price(symbol), list |-> <<>>]]
  /\ Goto(c, "return")
  /\ UNCHANGED <<HAS_WS, desktop, streamer, units, url, t, history>>

\* a call of list_symbols()
ListSymbols(c) ==
  /\ cpc[c] = "idle"
  /\ op' = [op EXCEPT ![c] = "list_symbols"]
  /\ ret' = [ret EXCEPT ![c] = [val |-> "list", price |-> <<>>, list |-> list_symbols]]
  /\ Goto(c, "return")
  /\ UNCHANGED <<HAS_WS, desktop, streamer, units, arg, url, t, history>>

\* ------------------------------------------------------- desktop variant
\* src/trading_app_Version2.py: registration and login against the users table
Usernames == {"ann", "bob"}
Passwords == {"p", "q"}
\* values of os.urandom(16)
Salts == {"s1", "s2"}
PBKDF2_ITER == 150000

\* the modules the import statements of the file bind
ImportedModules == {"sqlite3", "hmac", "os", "datetime", "csv", "tkinter", "decimal"}
\* evaluating the name of a module that was not imported raises NameError
NameError(name) == name \notin ImportedModules

\* hashlib.pbkdf2_hmac('sha256', pw, salt, iters): different inputs give
\* different keys
pbkdf2_hmac(pw, salt, iters) == <<pw, salt, iters>>

\* hash_pw(pw) with the salt os.urandom returned: the stored text, or the
\* exception that leaves the function
hash_pw(pw, salt) ==
  IF NameError("hashlib") THEN [raised |-> TRUE, value |-> <<>>]
  ELSE [raised |-> FALSE,
        value |-> <<salt, pbkdf2_hmac(pw, salt, PBKDF2_ITER), PBKDF2_ITER>>]

\* verify_pw(pw, stored): every exception is caught and gives False
verify_pw(pw, stored) ==
  IF NameError("hashlib") THEN FALSE
  ELSE pbkdf2_hmac(pw, stored[1], stored[3]) = stored[2]

\* create_user(username, password): hash_pw is evaluated before the INSERT;
\* the UNIQUE constraint raises IntegrityError; any other exception is
\* reported as "Error: ..."
create_user(username, password, salt) ==
  /\ Len(dlog) < MaxDesktopCalls
  /\ LET h == hash_pw(password, salt)
         known == \E r \in users : r.username = username
         ok == ~h.raised /\ ~known
         msg == IF h.raised THEN "Error: name 'hashlib' is not defined"
                ELSE IF known THEN "Username sudah digunakan."
                ELSE "Registrasi berhasil."
     IN /\ users' = IF ok
                      THEN users \cup {[id |-> Cardinality(users) + 1,
                                        username |-> username,
                                        password_hash |-> h.value]}
                      ELSE users
        /\ dlog' = Append(dlog, [op |-> "create_user", username |-> username,
                                 password |-> password, known |-> known,
                                 ok |-> ok, uid |-> 0, msg |-> msg,
                                 changed |-> users' # users])
  /\ UNCHANGED <<HAS_WS, streamer, units, frames, history>>

\* authenticate(username, password)
authenticate(username, password) ==
  /\ Len(dlog) < MaxDesktopCalls
  /\ LET known == \E r \in users : r.username = username
         row == CHOOSE r \in users : r.username = username
         ok == known /\ verify_pw(password, row.password_hash)
         msg == IF ~known THEN "User tidak ditemukan."
                ELSE IF ok THEN "" ELSE "Password salah."
     IN dlog' = Append(dlog, [op |-> "authenticate", username |-> username,
                              password |-> password, known |-> known,
                              ok |-> ok, uid |-> IF ok THEN row.id ELSE 0,
                              msg |-> msg, changed |-> FALSE])
  /\ UNCHANGED <<HAS_WS, streamer, units, frames, history, users>>

\* ---------------------------------------------------------- specification
\* well-formed trade ticks, as the feed sends them for a subscribed stream
Ticks ==
  {m \in Messages : /\ m.kind = "object" /\ m.wrapped
                    /\ m.body.s \in {<<"B","T">>, <<"E","T">>}
                    /\ m.body.p = <<"1",".","5","0">> /\ m.body.c = <<>>}

UnitStep(u) ==
  \/ UnitCheck(u) \/ UnitCreate(u) \/ UnitRun(u)
  \/ ConnectionClosed(u) \/ UnitAfter(u) \/ UnitWake(u)

CallerStep(c) ==
  \/ StopSet(c) \/ StopClose(c) \/ StopThread(c) \/ StopJoin(c)
  \/ StopClearApp(c) \/ StopClearThread(c) \/ BuildTest(c) \/ BuildSorted(c)
  \/ RunClear(c) \/ RunStart(c) \/ RunAssign(c) \/ Return(c)

Background ==
  \/ \E u \in Units : UnitStep(u)
  \/ \E u \in Units : ConnectionLost(u)

\* the symbols whose streams a url names
StreamsIn(x) == CHOOSE S \in SUBSET {Upper(i) : i \in InputSymbols} : UrlOf(S) = x
\* the feed sends on a connection only ticks of the streams in its url
Carries(u, m) == uapp[u] # None /\ Upper(m.body.s) \in StreamsIn(ConnUrl(u))

\* one caller thread, a feed that sends what was asked for
Next ==
  \/ \E s \in InputSymbols : subscribe(1, s)
  \/ \E s \in InputSymbols : unsubscribe(1, s)
  \/ stop(1)
  \/ CallerStep(1)
  \/ Background
  \/ \E u \in Units : \E m \in Ticks : Carries(u, m) /\ _on_message(u, m)

Spec == Init /\ [][Next]_vars

\* several caller threads on the one cached streamer
NextConcurrent ==
  \/ \E c \in Callers : \E s \in InputSymbols :
        calls < MaxCallsShort /\ subscribe(c, s)
  \/ \E c \in Callers : \E s \in InputSymbols :
        calls < MaxCallsShort /\ unsubscribe(c, s)
  \/ \E c \in Callers : CallerStep(c)
  \/ Background

SpecConcurrent == Init /\ [][NextConcurrent]_vars

\* one caller thread, any text arriving on a connection
NextMessages ==
  \/ \E s \in InputSymbols : calls < MaxCallsShort /\ subscribe(1, s)
  \/ \E s \in InputSymbols : calls < MaxCallsShort /\ unsubscribe(1, s)
  \/ CallerStep(1)
  \/ Background
  \/ \E u \in Units : \E m \in Messages : _on_message(u, m)

SpecMessages == Init /\ [][NextMessages]_vars

\* one caller thread that never calls stop(); every thread that can run does
NextUnstopped ==
  \/ \E s \in InputSymbols : calls < MaxCallsShort /\ subscribe(1, s)
  \/ \E s \in InputSymbols : calls < MaxCallsShort /\ unsubscribe(1, s)
  \/ CallerStep(1)
  \/ Background
  \/ \E u \in Units : \E m \in Ticks : Carries(u, m) /\ _on_message(u, m)

SpecUnstopped ==
  /\ Init
  /\ [][NextUnstopped]_vars
  /\ WF_vars(CallerStep(1))
  /\ \A u \in Units : WF_vars(UnitStep(u))

\* one caller thread that subscribes, unsubscribes and stops, a second one
\* that reads; every thread that can run does
NextReads ==
  \/ \E s \in InputSymbols : calls < MaxCallsShort /\ subscribe(1, s)
  \/ \E s \in InputSymbols : calls < MaxCallsShort /\ unsubscribe(1, s)
  \/ calls < MaxCallsShort /\ stop(1)
  \/ CallerStep(1)
  \/ Background
  \/ \E u \in Units : \E m \in Ticks : Carries(u, m) /\ _on_message(u, m)
  \/ \E s \in InputSymbols : GetPrice(2, s)
  \/ ListSymbols(2)
  \/ Return(2)

SpecReads ==
  /\ Init
  /\ [][NextReads]_vars
  /\ WF_vars(CallerStep(1))
  /\ WF_vars(Return(2))
  /\ \A u \in Units : WF_vars(UnitStep(u))

\* the desktop variant: registrations and logins in any order
NextDesktop ==
  \/ \E u \in Usernames : \E p \in Passwords : \E x \in Salts : create_user(u, p, x)
  \/ \E u \in Usernames : \E p \in Passwords : authenticate(u, p)

SpecDesktop == Init /\ [][NextDesktop]_vars

\* ================================================================ claims
\* a unit that holds a connection or has created the app it is about to run
Holding(u) == upc[u] \in {"run", "connected"}

\* C1: in every reachable state at most one background unit holds, or is
\* about to open, a streaming connection.
C1_AtMostOneConnection == Cardinality({u \in Units : Holding(u)}) <= 1

\* C2: a unit for which _stop_ws has raised the stop signal never passes the
\* loop test of _run again: at its next check of the signal it leaves the loop.
C2_StoppedUnitLeavesLoop ==
  [][\A u \in Units :
       (u \in signalled /\ upc[u] = "check") => upc'[u] \in {"check", "none"}]_vars

\* a unit on its way out: the stop signal is up and the unit is past its
\* connection, so its next loop test ends it
Leaving(u) == stop_event /\ upc[u] \in {"closing", "after", "sleep", "check"}
\* a unit that goes on running
Running(u) == Alive(u) /\ ~Leaving(u)

\* C3: once all concurrent subscribe / unsubscribe calls have returned, the only
\* unit that goes on running is the one _thread refers to, and when the set is
\* not empty there is such a unit and it was opened against the url of the
\* final set.
C3_CallsSerialized ==
  (\A c \in Callers : cpc[c] = "idle") =>
     /\ \A u \in Units : Running(u) => u = thread
     /\ symbols # {} =>
          thread # None /\ Running(thread) /\ uurl[thread] = UrlOf(symbols)

\* the caller is inside unsubscribe(S)
Unsubscribing(S) == cpc[1] # "idle" /\ op[1] = "unsubscribe" /\ arg[1] = S

\* C4: after unsubscribe(S) has returned, and until S is subscribed again,
\* get_price(S) is absent.
C4_NoPriceAfterUnsubscribe ==
  \A S \in subscribed \ symbols : ~Unsubscribing(S) => get_price(S) = <<>>

\* C5: every symbol with an entry in _prices was subscribed at some earlier
\* point, whatever messages arrive.
C5_CachedWereSubscribed == DOMAIN prices \subseteq subscribed

\* C6: subscribe(S) for a symbol already in the set returns at once: the set,
\* the cache, the stop event, the handle references and every background unit
\* stay as they are (no _stop_ws, no _run_ws).
C6_SubscribeIdempotent ==
  [][\A c \in Callers :
       (HAS_WS /\ cpc[c] = "idle" /\ op'[c] = "subscribe" /\ arg'[c] \in symbols)
         => /\ cpc'[c] = "return"
            /\ ret'[c].val = "True"
            /\ UNCHANGED <<symbols, prices, ws_app, thread, stop_event, aurl,
                           upc, uurl, uapp>>]_vars

\* a second subscribe(S) has returned without restarting the live connection
C6_Witness ==
  /\ cpc[1] = "return" /\ op[1] = "subscribe" /\ ret[1].val = "True"
  /\ arg[1] \in symbols /\ url[1] = <<>>
  /\ calls >= 2 /\ thread # None /\ Connected(thread)

\* C7: for S not in the set and without a cache entry, subscribe(S), ticks for S,
\* then unsubscribe(S): when unsubscribe returns, _symbols and _prices have
\* exactly the values they had before the subscribe.
C7_SubscribeUnsubscribeRestores ==
  (pre # <<>> /\ cpc[1] = "return" /\ op[1] = "unsubscribe"
     /\ pre[1].stage = "unsubscribed" /\ arg[1] = pre[1].sym)
    => symbols = pre[1].symbols /\ prices = pre[1].prices

\* such an unsubscribe(S) returns after ticks for S were cached, with entries
\* of another symbol in the cache
C7_Witness ==
  /\ pre # <<>> /\ cpc[1] = "return" /\ op[1] = "unsubscribe"
  /\ pre[1].stage = "unsubscribed" /\ arg[1] = pre[1].sym
  /\ pre[1].ticks /\ pre[1].prices # <<>>

\* C8: while the set is empty and no call is in progress (from the return of the
\* unsubscribe that removed the last symbol to the next subscribe), no handle
\* is referenced, list_symbols() is empty, and no unit holds a connection or
\* goes on to open one.
C8_EmptySetNoConnection ==
  (HAS_WS /\ symbols = {} /\ cpc[1] = "idle") =>
     /\ thread = None
     /\ list_symbols = <<>>
     /\ \A u \in Units : ~Running(u)

\* C9: with one caller that never calls stop(), whenever no call is in progress
\* the connection agrees with the set: no current unit for the empty set, and
\* otherwise a current unit that runs, was started with the url of the set,
\* and is connected to no other url.
C9_ConnectionAgreesWithSet ==
  cpc[1] = "idle" =>
     IF symbols = {} THEN thread = None
     ELSE /\ thread # None
          /\ Alive(thread)
          /\ uurl[thread] = UrlOf(symbols)
          /\ Connected(thread) => ConnUrl(thread) = UrlOf(symbols)

\* C10: after a connection of the current unit has ended with the stop signal
\* down and the unit has slept its backoff, the connection the unit opens
\* next is a connection to the url the unit was started with.
C10_ReconnectsToSameUrl ==
  [][\A u \in Units :
       (u = thread /\ u \in retrying /\ upc[u] = "run" /\ upc'[u] = "connected")
         => aurl'[uapp'[u]] = uurl[u]]_vars

\* C11: when stop() returns, no background unit has a connection open and none
\* is on its way to open one (past the loop test, before run_forever), at
\* whatever point of its loop the unit was when stop() was called.
C11_StopClosesConnection ==
  (cpc[1] = "return" /\ op[1] = "stop") =>
     \A u \in Units : upc[u] \notin {"create", "run", "connected"}

\* C12: once stop() has been called, no later call starts a background unit.
C12_StopIsTerminal ==
  [][stopped # "never" =>
       \A u \in Units : ~(upc[u] = "none" /\ upc'[u] # "none")]_vars

\* C13: every step of a stop() call that finds both handles absent (no
\* connection is live, or the preceding call was a stop()) leaves the set, the
\* cache, the handles and every background unit as they are.
C13_StopIdempotent ==
  [][\A c \in Callers :
       (op'[c] = "stop" /\ cpc'[c] # cpc[c] /\ ws_app = None /\ thread = None)
         => UNCHANGED <<symbols, prices, ws_app, thread, aurl, upc, uurl, uapp>>]_vars

\* a second stop() in a row has returned, with symbols subscribed
C13_Witness ==
  /\ cpc[1] = "return" /\ op[1] = "stop" /\ stopped = "twice"
  /\ symbols # {} /\ ws_app = None /\ thread = None

\* C14: every call that has been entered returns, also when the unit it
\* joins never exits.
C14_EveryCallReturns ==
  \A c \in Callers : (cpc[c] # "idle") ~> (cpc[c] = "idle")

\* the join of a call has returned with the joined unit still alive, inside
\* run_forever or asleep
C14_Witness ==
  /\ cpc[1] = "stop_clear_app" /\ thread # None /\ Blocked(thread)

\* C15: a get_price call changes neither the set, the cache, the handles, the
\* stop event nor any unit, returns the cached entry or absent, and can be
\* made by an idle caller at any moment, whatever step of a stop, join, open
\* or backoff the other threads are at.
C15_GetPriceIsPureRead ==
  /\ [](cpc[2] = "idle" => \A s \in InputSymbols : ENABLED GetPrice(2, s))
  /\ [][\A c \in Callers :
          (cpc[c] = "idle" /\ op'[c] = "get_price")
            => /\ UNCHANGED <<symbols, prices, ws_app, thread, stop_event, aurl,
                              upc, uurl, uapp>>
               /\ cpc'[c] = "return"
               /\ ret'[c].price = IF arg'[c] \in DOMAIN prices
                              THEN <<prices[arg'[c]]>> ELSE <<>>]_vars

\* get_price has returned absent while the other caller waits in the join of
\* a _stop_ws
C15_Witness ==
  /\ cpc[2] = "return" /\ op[2] = "get_price" /\ ret[2].price = <<>>
  /\ cpc[1] = "stop_join"

\* C16: the members of the set and the keys of the cache are upper case, so no
\* two differ only in case; get_price answers every spelling of a symbol as
\* it answers the upper-case one; a tick with one spelling writes the cache
\* as the tick with the upper-case spelling does; and a subscribe or an
\* unsubscribe with one spelling is the same step as with the upper-case one.
C16_CaseNormalized ==
  /\ [](/\ \A x \in symbols \cup DOMAIN prices : x = Upper(x)
        /\ \A s \in InputSymbols : get_price(s) = get_price(Upper(s))
        /\ \A m \in Messages :
             OnMessageResult(m) = OnMessageResult([m EXCEPT !.body.s = Upper(@)]))
  /\ [][HAS_WS =>
          \A s \in InputSymbols \ {Upper(i) : i \in InputSymbols} :
             /\ subscribe(1, s) <=> subscribe(1, Upper(s))
             /\ unsubscribe(1, s) <=> unsubscribe(1, Upper(s))]_vars

\* get_price with a lower-case spelling returns the entry of the subscribed
\* upper-case symbol
C16_Witness ==
  /\ <<"B","T">> \in symbols
  /\ get_price(<<"b","t">>) # <<>>
  /\ get_price(<<"b","t">>) = <<prices[<<"B","T">>]>>

\* a trade tick with a symbol and a price in the last-trade field, or in the
\* last-close field when there is no last-trade field
WellFormedTick(m) ==
  /\ m.kind = "object" /\ m.body.s # <<>>
  /\ \/ m.body.p = <<"1",".","5","0">>
     \/ m.body.p = <<>> /\ m.body.c = <<"2">>
\* the number the price text of such a tick denotes
TickValue(m) ==
  IF m.body.p = <<"1",".","5","0">> THEN [coef |-> 150, exp |-> 0 - 2]
  ELSE [coef |-> 2, exp |-> 0]

\* C17: in every reachable state, delivering a well-formed tick (S, p) makes
\* the entry of S exactly the number p denotes, whatever the entry was, and
\* leaves the other entries alone; and the entry of S changes or goes only by
\* a tick for S or by the locked block of unsubscribe(S).
C17_LastWriteWins ==
  /\ [](\A m \in Messages : WellFormedTick(m) =>
          LET new == OnMessageResult(m)
              S == Upper(m.body.s)
          IN /\ DOMAIN new = DOMAIN prices \cup {S}
             /\ new[S] = TickValue(m)
             /\ \A x \in DOMAIN prices \ {S} : new[x] = prices[x])
  /\ [][\A S \in DOMAIN prices :
          (S \notin DOMAIN prices' \/ prices'[S] # prices[S])
            => \/ \E u \in Units : \E m \in Messages :
                    Upper(m.body.s) = S /\ _on_message(u, m)
               \/ cpc[1] = "idle" /\ op'[1] = "unsubscribe" /\ arg'[1] = S]_vars

\* two symbols are cached with the prices of their latest ticks, one taken
\* from each price field
C17_Witness ==
  /\ DOMAIN prices = {<<"B","T">>, <<"E","T">>}
  /\ get_price(<<"B","T">>) = <<[coef |-> 2, exp |-> 0]>>
  /\ get_price(<<"E","T">>) = <<[coef |-> 150, exp |-> 0 - 2]>>

\* a message that is not json, is not an object, has no symbol, or has
\* neither price field
Malformed(m) ==
  \/ m.kind # "object"
  \/ m.body.s = <<>>
  \/ m.body.p = <<>> /\ m.body.c = <<>>

\* C18: in every reachable state a malformed message, or one whose price text
\* is not a number, leaves the cache as it is; a message with a symbol writes
\* the number of its "p" field when it has one and of its "c" field
\* otherwise; and the step in which _on_message drops a message changes
\* neither the set, the cache, the handles nor any unit or caller.
C18_MalformedDropped ==
  /\ [](\A m \in Messages :
          /\ (Malformed(m) \/ (m.kind = "object" /\ m.body.p = <<"x">>))
               => OnMessageResult(m) = prices
          /\ (m.kind = "object" /\ m.body.s # <<>> /\ m.body.p = <<"1",".","5","0">>)
               => OnMessageResult(m)[Upper(m.body.s)] = [coef |-> 150, exp |-> 0 - 2]
          /\ (m.kind = "object" /\ m.body.s # <<>> /\ m.body.p = <<>>
                 /\ m.body.c = <<"2">>)
               => OnMessageResult(m)[Upper(m.body.s)] = [coef |-> 2, exp |-> 0])
  /\ [][dropped' # dropped =>
          UNCHANGED <<symbols, prices, ws_app, thread, stop_event, aurl,
                      upc, uurl, uapp, cpc, ret>>]_vars

\* a message has been dropped, the connection it came on is up, and a price
\* taken from the "c" field is cached
C18_Witness ==
  /\ dropped
  /\ \E u \in Units : Connected(u)
  /\ <<"B","T">> \in DOMAIN prices /\ prices[<<"B","T">>] = [coef |-> 2, exp |-> 0]

\* the url of each set of the symbols BT and ET, written out
ExpectedUrl(S) ==
  CASE S = {} -> <<>>
    [] S = {<<"B","T">>} -> BINANCE_WS_BASE \o <<"b","t","@trade">>
    [] S = {<<"E","T">>} -> BINANCE_WS_BASE \o <<"e","t","@trade">>
    [] S = {<<"B","T">>, <<"E","T">>} ->
         BINANCE_WS_BASE \o <<"b","t","@trade","/","e","t","@trade">>

\* C19: _build_url maps each set to its written-out url and the empty set to
\* no url; the url a call of the single caller has built, by whatever sequence
\* of calls the set came about, is the url of the set, and a call that finds
\* the set empty builds none.
C19_UrlFunctionOfSet ==
  /\ \A S \in SUBSET {<<"B","T">>, <<"E","T">>} : _build_url(S) = ExpectedUrl(S)
  /\ cpc[1] \in {"run_clear", "run_start", "run_assign"}
       => symbols # {} /\ url[1] = ExpectedUrl(symbols)
  /\ (HAS_WS /\ cpc[1] = "return" /\ op[1] = "unsubscribe" /\ symbols = {})
       => url[1] = <<>>

\* the url of the set {BT, ET} has been built
C19_Witness ==
  /\ cpc[1] = "run_clear" /\ symbols = {<<"B","T">>, <<"E","T">>}
  /\ url[1] = BINANCE_WS_BASE \o <<"b","t","@trade","/","e","t","@trade">>

\* C20: without the websocket library the set and the cache stay empty, no
\* handle is ever set and no unit ever exists; subscribe and unsubscribe
\* return False at once; get_price returns absent and list_symbols the empty
\* list; and every stop() call returns.
C20_NoLibraryNoConnection ==
  /\ [](~HAS_WS => /\ symbols = {} /\ prices = <<>>
                    /\ ws_app = None /\ thread = None
                    /\ \A u \in Units : ~Alive(u))
  /\ [][~HAS_WS =>
          \A c \in Callers :
             /\ (cpc[c] = "idle" /\ op'[c] \in {"subscribe", "unsubscribe"})
                  => cpc'[c] = "return" /\ ret'[c] = Returns("False")
             /\ (cpc[c] = "idle" /\ op'[c] \in {"get_price", "list_symbols"})
                  => /\ cpc'[c] = "return"
                     /\ ret'[c].price = <<>> /\ ret'[c].list = <<>>]_vars
  /\ (~HAS_WS /\ op[1] = "stop") ~> (cpc[1] = "return" /\ op[1] = "stop")

\* without the library, a subscribe made after a stop() has returned False
C20_Witness ==
  /\ ~HAS_WS /\ stopped = "earlier"
  /\ cpc[1] = "return" /\ op[1] = "subscribe" /\ ret[1].val = "False"

\* C21: unsubscribe(S) for a symbol that is not in the set returns at once: the
\* set, the cache, the stop event, the handle references and every background
\* unit stay as they are (no _stop_ws, no _run_ws).
C21_UnsubscribeAbsentIsNoOp ==
  [][\A c \in Callers :
       (HAS_WS /\ cpc[c] = "idle" /\ op'[c] = "unsubscribe" /\ arg'[c] \notin symbols)
         => /\ cpc'[c] = "return"
            /\ UNCHANGED <<symbols, prices, ws_app, thread, stop_event, aurl,
                           upc, uurl, uapp>>]_vars

\* C22: a create_user(u, p) for a username not in the table succeeds and
\* stores u; every later authenticate(u, p) succeeds with the id of that row
\* and every later authenticate(u, q), q # p, fails; a create_user for a
\* username in the table fails and leaves the table as it is.
C22_RegisterLoginRoundTrip ==
  \A i \in DOMAIN dlog :
     dlog[i].op = "create_user" =>
       IF dlog[i].known THEN ~dlog[i].ok /\ ~dlog[i].changed
       ELSE /\ dlog[i].ok
            /\ \E r \in users : r.username = dlog[i].username
            /\ \A j \in DOMAIN dlog :
                 (j > i /\ dlog[j].op = "authenticate"
                    /\ dlog[j].username = dlog[i].username)
                   => IF dlog[j].password = dlog[i].password
                        THEN /\ dlog[j].ok
                             /\ \E r \in users : r.username = dlog[i].username
                                                   /\ r.id = dlog[j].uid
                        ELSE ~dlog[j].ok

====
